---------------------------- MODULE Spec2Model ----------------------------
(***************************************************************************)
(* Sovereign Mind MCP Gateway, src/app.py: the tool catalog and its        *)
(* refresh, the JSON-RPC pipeline (tools/list, tools/call, native tools),  *)
(* and the SSE push sessions, as run by Flask's threaded server            *)
(* (app.run(..., threaded=True)): every request is served by its own       *)
(* thread, and the threads share the module-level `catalog` and            *)
(* `sse_sessions` without any lock.                                        *)
(*                                                                         *)
(* Conventions.                                                            *)
(*  - A Python string that is used as a tool name or a prefix is a         *)
(*    sequence of its underscore-free segments: "sm_query_snowflake" is    *)
(*    <<"sm","query","snowflake">>.  Splitting on "_" is a bijection, so   *)
(*    f"{prefix}_{name}" is exactly prefix \o name, and                    *)
(*    s.startswith(prefix + "_") is "prefix is a proper leading part".     *)
(*  - An optional value (Python None / a missing dict key) is <<>>, a      *)
(*    present one is <<v>>.                                                *)
(*  - JSON values are records tagged by the field t.                       *)
(***************************************************************************)
EXTENDS Integers, Sequences, FiniteSets, TLC

\* ------------------------------------------------------------------ values
NoneT == <<>>
Some(x) == <<x>>
Get(opt, default) == IF opt = <<>> THEN default ELSE opt[1]

None == "None"

Range(s) == {s[i] : i \in DOMAIN s}

Put(f, k, v) == [x \in (DOMAIN f) \cup {k} |-> IF x = k THEN v ELSE f[x]]

EmptyMap == [x \in {} |-> None]

\* JSON values, as far as the gateway looks into them.
JNull == [t |-> "null"]                 \* null, and Python None
JEmptyObj == [t |-> "emptyobj"]         \* {}
JArray == [t |-> "array"]               \* a non-empty array
JObj(result, error) == [t |-> "obj", result |-> result, error |-> error]
InvalidJ == [t |-> "invalid"]           \* text that is not JSON

\* Python truthiness of a decoded JSON value (`if not data`, `if result and`).
Truthy(v) == v.t \notin {"null", "emptyobj"}

\* ------------------------------------------------------------ configuration
\* Three rows of the seventeen of BACKEND_MCPS, in the table's order: a JSON
\* upstream with a probe, the SSE upstream without a probe and with its own
\* timeout and headers, and the upstream with an alt_url.
BACKEND_MCPS ==
  << [name |-> "snowflake", url |-> "MCP_SNOWFLAKE_URL", prefix |-> <<"sm">>,
      enabled |-> TRUE, transport |-> "json", priority |-> 1,
      health_check |-> TRUE, timeout |-> NoneT, headers |-> NoneT,
      alt_url |-> NoneT],
     [name |-> "make", url |-> "MCP_MAKE_URL", prefix |-> <<"make">>,
      enabled |-> TRUE, transport |-> "sse", priority |-> 2,
      health_check |-> FALSE, timeout |-> Some(120),
      headers |-> Some("Accept: application/json, text/event-stream"),
      alt_url |-> NoneT],
     [name |-> "mac_studio", url |-> "MCP_MACSTUDIO_URL", prefix |-> <<"mac">>,
      enabled |-> TRUE, transport |-> "json", priority |-> 2,
      health_check |-> TRUE, timeout |-> NoneT, headers |-> NoneT,
      alt_url |-> Some("http://100.70.153.106:8080/mcp")] >>

BackendNames == {BACKEND_MCPS[i].name : i \in DOMAIN BACKEND_MCPS}

\* A table as an operator could write it, to exercise what refresh and
\* handle_tools_call do with names that collide (the prefixes of the shipped
\* table are distinct and free of "_", so no two of its rows can produce the
\* same prefixed name, and none can produce a native name): a second row
\* with the prefix "sm", and a row whose prefix is "gateway".
CONFLICT_MCPS ==
  << [name |-> "snowflake", url |-> "MCP_SNOWFLAKE_URL", prefix |-> <<"sm">>,
      enabled |-> TRUE, transport |-> "json", priority |-> 1,
      health_check |-> TRUE, timeout |-> NoneT, headers |-> NoneT,
      alt_url |-> NoneT],
     [name |-> "mirror", url |-> "MCP_MIRROR_URL", prefix |-> <<"sm">>,
      enabled |-> TRUE, transport |-> "json", priority |-> 2,
      health_check |-> FALSE, timeout |-> NoneT, headers |-> NoneT,
      alt_url |-> NoneT],
     [name |-> "shadow", url |-> "MCP_SHADOW_URL", prefix |-> <<"gateway">>,
      enabled |-> TRUE, transport |-> "json", priority |-> 3,
      health_check |-> FALSE, timeout |-> NoneT, headers |-> NoneT,
      alt_url |-> NoneT] >>

Config(name) == CHOOSE c \in Range(BACKEND_MCPS) : c.name = name

\* Each tool schema is {name, description, inputSchema}; the description is
\* its bracketed tag and its text, the inputSchema is carried and left out.
NATIVE_TOOLS ==
  << [name |-> <<"hivemind", "write">>,
      description |-> [tag |-> "GATEWAY", text |-> "Write an entry"]],
     [name |-> <<"hivemind", "read">>,
      description |-> [tag |-> "GATEWAY", text |-> "Read recent entries"]],
     [name |-> <<"gateway", "status">>,
      description |-> [tag |-> "GATEWAY", text |-> "Get the status"]] >>

native_names == {NATIVE_TOOLS[i].name : i \in DOMAIN NATIVE_TOOLS}

\* ------------------------------------------------------------ sorted_backends
\* sorted(..., key=priority) is stable: equal priorities keep the table's order.
RECURSIVE InsertByPriority(_, _)
InsertByPriority(s, c) ==
  IF s = <<>> THEN <<c>>
  ELSE IF s[Len(s)].priority <= c.priority THEN Append(s, c)
  ELSE Append(InsertByPriority(SubSeq(s, 1, Len(s) - 1), c), s[Len(s)])

RECURSIVE SortByPriority(_)
SortByPriority(s) ==
  IF s = <<>> THEN <<>>
  ELSE InsertByPriority(SortByPriority(SubSeq(s, 1, Len(s) - 1)), s[Len(s)])

sorted_backends == SortByPriority(SelectSeq(BACKEND_MCPS, LAMBDA c : c.enabled))

\* The same of the table with colliding names.
sorted_conflict == SortByPriority(SelectSeq(CONFLICT_MCPS, LAMBDA c : c.enabled))

\* The sorted table a run refreshes from, by the name of its answer set.
Table(answers) == IF answers = "conflict" THEN sorted_conflict ELSE sorted_backends

EnabledNames == {sorted_backends[i].name : i \in DOMAIN sorted_backends}

\* ------------------------------------------------------------------ framing
\* A response body is a sequence of lines; a line either starts with "data: "
\* or not, and what follows (the whole line when it does not) is a JSON
\* document or not.
Line(data, payload) == [data |-> data, payload |-> payload]

\* A variant that gives up at the first "data: " line, valid or not.
parse_sse_first_data_line(text) ==
  LET at == {i \in 1..Len(text) : text[i].data} IN
  IF at = {} THEN JNull
  ELSE LET i == CHOOSE i \in at : \A j \in at : i <= j IN
       IF text[i].payload # InvalidJ THEN text[i].payload ELSE JNull

\* parse_sse_response: the first line that starts with "data: " and whose rest
\* is JSON; None when there is none.
RECURSIVE parse_sse_response(_)
parse_sse_response(text) ==
  IF text = <<>> THEN JNull
  ELSE IF Head(text).data /\ Head(text).payload # InvalidJ
       THEN Head(text).payload
       ELSE parse_sse_response(Tail(text))

\* response.json(): the whole body is one JSON document, or it raises.
response_json(text) ==
  IF Len(text) = 1 /\ ~text[1].data /\ text[1].payload # InvalidJ
  THEN [raised |-> FALSE, value |-> text[1].payload]
  ELSE [raised |-> TRUE, value |-> JNull]

\* The two framings of one JSON document, as an upstream writes them.
JsonBody(v) == << Line(FALSE, v) >>
SseBody(v) == << Line(FALSE, InvalidJ), Line(TRUE, v), Line(FALSE, InvalidJ) >>

\* `parse_sse_response(response.text) if transport == "sse" else response.json()`
Decode(transport, text) ==
  IF transport = "sse"
  THEN [raised |-> FALSE, value |-> parse_sse_response(text)]
  ELSE response_json(text)


\* ------------------------------------------------------------------- bounds
\* Refresh executions started in one behaviour (each gets the next number).
MaxRefreshes == 2
\* Clock advances in one behaviour.
MaxTicks == 2
\* Clock resolution: ticks per second (2: half seconds).
TicksPerSecond == 2
\* Longest tool list an upstream advertises.
MaxTools == 2
\* Push sessions opened in a run.
MaxSessions == 2
\* Envelopes put on the queues in a run.
MaxPuts == 3
\* Keepalive comments sent in a run.
MaxKeepalives == 1

Threads == {"t1", "t2"}

\* ------------------------------------------------------------------- clock
refresh_interval == 300

SecondsPerDay == 24 * 60 * 60

\* The amounts by which the clock advances between two events: a fraction of
\* a second, the TTL and a fraction, one day.
ClockSteps ==
  {1, refresh_interval * TicksPerSecond + 1, SecondsPerDay * TicksPerSecond}

\* timedelta.seconds: the seconds field of the normalised timedelta
\* (days, 0 <= seconds < 86400, microseconds), not its total length.
timedelta_seconds(d) == (d % (SecondsPerDay * TicksPerSecond)) \div TicksPerSecond

\* ToolCatalog.needs_refresh
needs_refresh(cat, clock) ==
  IF cat.last_refresh = NoneT THEN TRUE
  ELSE timedelta_seconds(clock - cat.last_refresh[1]) > refresh_interval

\* ------------------------------------------------------------------ refresh
HealthRecord(status, n, error) == [status |-> status, tools |-> n, error |-> error]

\* ToolCatalog.check_backend_health; primary and alt are what the two GETs
\* do: a status code, or 0 for an exception (refused, timed out).
check_backend_health(config, primary, alt) ==
  IF ~config.health_check THEN TRUE
  ELSE IF primary # 0 THEN primary = 200
  ELSE IF config.alt_url # NoneT /\ alt # 0 THEN alt = 200
  ELSE FALSE

\* prefix.upper(), on the prefixes of the table.
upper(prefix) ==
  CASE prefix = <<"sm">> -> "SM"
    [] prefix = <<"make">> -> "MAKE"
    [] prefix = <<"mac">> -> "MAC"
    [] prefix = <<"gateway">> -> "GATEWAY"

\* A variant that keeps the advertised name as the schema's name.
CatalogEntryUnprefixed(config, original_name) ==
  [backend |-> config.name,
   backend_url |-> config.url,
   original_name |-> original_name,
   transport |-> config.transport,
   headers |-> config.headers,
   timeout |-> Get(config.timeout, 60),
   schema |-> [name |-> original_name,
               description |-> [tag |-> upper(config.prefix), text |-> ""]]]

\* The catalog entry refresh stages for one advertised tool (lines 268-280).
CatalogEntry(config, original_name) ==
  [backend |-> config.name,
   backend_url |-> config.url,
   original_name |-> original_name,
   transport |-> config.transport,
   headers |-> config.headers,
   timeout |-> Get(config.timeout, 60),
   schema |-> [name |-> config.prefix \o original_name,
               description |-> [tag |-> upper(config.prefix), text |-> ""]]]

\* `for tool in tools:` over an advertised list; tool["name"] raises KeyError
\* on a tool without a name, and what was staged before it stays staged.
RECURSIVE IngestTools(_, _, _)
IngestTools(new_tools, config, ts) ==
  IF ts = <<>> THEN [new_tools |-> new_tools, raised |-> FALSE]
  ELSE IF Head(ts).name = NoneT THEN [new_tools |-> new_tools, raised |-> TRUE]
  ELSE IngestTools(
         Put(new_tools, config.prefix \o Head(ts).name[1],
             CatalogEntry(config, Head(ts).name[1])),
         config, Tail(ts))

\* data.get("result", {}).get("tools", []) on a decoded object.
AdvertisedTools(data) == IF data.result = NoneT THEN <<>> ELSE data.result[1].tools

\* A variant without the `except Exception` clause: an error leaves the loop.
VisitedOrRaised(new_tools, status, n, error) ==
  [new_tools |-> new_tools, health |-> HealthRecord(status, n, error),
   escapes |-> status = "error"]

\* What one pass of the loop body leaves: the staged entries, the upstream's
\* health record, and whether an exception left the loop body.
Visited(new_tools, status, n, error) ==
  [new_tools |-> new_tools, health |-> HealthRecord(status, n, error),
   escapes |-> FALSE]

\* One pass of the body of `for backend_name, config in sorted_backends:`
\* (lines 237-288).  primary and alt are what the probe's GETs do, reply what
\* the POST of tools/list does.  Every exception of the body is caught by
\* `except httpx.TimeoutException` or `except Exception`.
VisitBackend(new_tools, config, primary, alt, reply) ==
  IF ~check_backend_health(config, primary, alt)
  THEN Visited(new_tools, "unhealthy", 0, "Health check failed")
  ELSE IF reply.kind = "timeout"
  THEN Visited(new_tools, "timeout", 0, "Connection timeout")
  ELSE IF reply.kind = "raise"
  THEN Visited(new_tools, "error", 0, "str(e)")
  ELSE IF reply.status # 200
  THEN Visited(new_tools, "error", 0, "HTTP " \o ToString(reply.status))
  ELSE LET d == Decode(config.transport, reply.text) IN
       IF d.raised
       THEN Visited(new_tools, "error", 0, "str(e)")
       ELSE IF ~Truthy(d.value)
       THEN Visited(new_tools, "error", 0, "Could not parse response")
       ELSE IF d.value.t # "obj"
       THEN Visited(new_tools, "error", 0, "str(e)")
       ELSE LET ts == AdvertisedTools(d.value)
                r == IngestTools(new_tools, config, ts)
            IN  IF r.raised
                THEN Visited(r.new_tools, "error", 0, "str(e)")
                ELSE Visited(r.new_tools, "healthy", Len(ts), None)

\* ToolCatalog.get_all_tools
get_all_tools(cat) == {cat.tools[k].schema : k \in DOMAIN cat.tools}

\* ToolCatalog.get_tool
get_tool(cat, prefixed_name) ==
  IF prefixed_name \in DOMAIN cat.tools THEN Some(cat.tools[prefixed_name]) ELSE NoneT


\* -------------------------------------------------------------------- state
VARIABLES
  catalog,   \* the module-level ToolCatalog: tools, backend_health, last_refresh
  written,   \* history: the refresh execution that wrote each field of catalog,
             \* and the upstreams whose probe failed in the one that wrote
             \* backend_health
  nrefresh,  \* history: refresh executions started so far
  now,       \* datetime.now(), in ticks
  ticks,     \* clock advances so far
  th,        \* the request threads: position and locals of each
  sse_sessions,  \* the module-level dict: session id -> its queue.Queue
  gen,       \* the generator of each session's stream: where it is suspended
  stream,    \* history: what each session's generator has yielded
  enqueued   \* history: every put, in the order the puts happened

push == <<sse_sessions, gen, stream, enqueued>>

vars == <<catalog, written, nrefresh, now, ticks, th, sse_sessions, gen, stream, enqueued>>

\* ------------------------------------------------------- requests and replies
\* A client request: its route and, for the JSON-RPC routes, the message.
\* id is optional; name and arguments are the params of tools/call.  body
\* tells what request.get_json() makes of the body: "json" (an object, the
\* message), "falsy" (JSON that is falsy: {}, [], null, 0) or "invalid" (not
\* JSON: get_json raises BadRequest).
Request(route, id, method, name, arguments) ==
  [route |-> route, id |-> id, method |-> method, name |-> name,
   arguments |-> arguments, session |-> 0, body |-> "json"]

NoRequest == Request("none", NoneT, "", <<>>, "")

\* JSON-RPC envelopes of process_mcp_message; request_id = data.get("id", 1).
request_id(r) == Get(r.id, 1)
RpcResult(r, result) == [jsonrpc |-> "2.0", id |-> Some(request_id(r)), result |-> result]
RpcError(id, code, message, detail) ==
  [jsonrpc |-> "2.0", id |-> id,
   error |-> [code |-> code, message |-> message, detail |-> detail]]

\* The tool-call result envelope {content: [{type: "text", text}], isError};
\* isError is optional.  A text is a fixed wording and what is put into it.
Text(msg, name, detail) == [msg |-> msg, name |-> name, detail |-> detail]
Envelope(text, isError) ==
  [t |-> "envelope", content |-> <<[type |-> "text", text |-> text]>>,
   isError |-> isError]

\* An HTTP response: status and body.
Http(status, body) == [t |-> "http", status |-> status, body |-> body]
NoReply == [t |-> "none"]

\* What a reader has read of the catalog so far, field by field.
NoSeen == [last_refresh |-> NoneT, tools |-> EmptyMap, backends |-> EmptyMap,
           last_by |-> 0, tools_by |-> 0, health_by |-> 0]

\* ToolCatalog.get_health_report, from the three fields as they were read.
get_health_report(seen) ==
  [t |-> "report", last_refresh |-> seen.last_refresh,
   total_tools |-> Cardinality(DOMAIN seen.tools), backends |-> seen.backends]

IdleThread ==
  [pc |-> "idle", req |-> NoRequest,
   idx |-> 0, new_tools |-> EmptyMap, health_status |-> EmptyMap,
   rid |-> 0, probe_failed |-> {},
   stale |-> FALSE, refreshed |-> FALSE,
   tool_info |-> NoneT, posts |-> <<>>, up |-> NoneT,
   seen |-> NoSeen, reply |-> NoReply]

Init ==
  /\ catalog = [tools |-> EmptyMap, backend_health |-> EmptyMap, last_refresh |-> NoneT]
  /\ written = [tools |-> 0, backend_health |-> 0, last_refresh |-> 0,
                probe_failed |-> {}]
  /\ nrefresh = 0
  /\ now = 0
  /\ ticks = 0
  /\ th = [t \in Threads |-> IdleThread]
  /\ sse_sessions = EmptyMap
  /\ gen = EmptyMap
  /\ stream = EmptyMap
  /\ enqueued = <<>>

\* The clock advances.
Tick ==
  /\ ticks < MaxTicks
  /\ \E d \in ClockSteps : now' = now + d
  /\ ticks' = ticks + 1
  /\ UNCHANGED <<catalog, written, nrefresh, th, push>>


\* ----------------------------------------------------------------- pipeline
\* A variant that returns the envelope in the body of every route.
AnswerInBody(thr, rpc) == [thr EXCEPT !.pc = "done", !.reply = Http(200, rpc)]

\* The reply leaves the pipeline: POST /mcp returns it as the HTTP body
\* (line 459); POST /sse/<id>/message goes on to put it on the session's
\* queue (line 496).
Answer(thr, rpc) ==
  IF thr.req.route = "/sse/message"
  THEN [thr EXCEPT !.pc = "put", !.reply = Http(200, rpc)]
  ELSE [thr EXCEPT !.pc = "done", !.reply = Http(200, rpc)]

\* An exception leaves the pipeline: mcp_handler's `except Exception` answers
\* -32603 with the request's id, sse_message's answers {"error": str(e)}; the
\* routes without a try (POST /refresh, GET /tools, GET /health) end in the
\* framework's 500.
Raise(thr) ==
  IF thr.req.route = "/mcp"
  THEN [thr EXCEPT !.pc = "done",
          !.reply = Http(500, RpcError(Some(request_id(thr.req)), -32603, "str(e)", ""))]
  ELSE IF thr.req.route = "/sse/message"
  THEN [thr EXCEPT !.pc = "done", !.reply = Http(500, [error |-> "str(e)"])]
  ELSE [thr EXCEPT !.pc = "done", !.reply = Http(500, [t |-> "Internal Server Error"])]

handle_initialize ==
  [t |-> "initialize", protocolVersion |-> "2024-11-05",
   serverInfo |-> "sovereign-mind-gateway"]

\* A variant that routes by the catalog before it looks at the native names.
handle_tools_call_catalog_first(thr) ==
  IF thr.req.name \in DOMAIN catalog.tools
  THEN [thr EXCEPT !.tool_info = Some(catalog.tools[thr.req.name]),
                   !.pc = "call_backend_tool"]
  ELSE IF thr.req.name = <<"gateway", "status">>
  THEN [thr EXCEPT !.pc = "report_last"]
  ELSE [thr EXCEPT !.pc = "get_tool"]

\* A variant that asks needs_refresh() before it serves the call.
handle_tools_call_refreshing(thr) == [thr EXCEPT !.pc = "needs_refresh"]

\* handle_tools_call up to its first read of the catalog (lines 416-420) and
\* handle_native_tool's choice of branch.
handle_tools_call(thr) ==
  IF thr.req.name \in native_names
  THEN IF thr.req.name = <<"gateway", "status">>
       THEN [thr EXCEPT !.pc = "report_last"]
       ELSE [thr EXCEPT !.pc = "get_tool"]
  ELSE [thr EXCEPT !.pc = "get_tool"]

\* process_mcp_message up to the handler's first read of the catalog.
process_mcp_message(thr) ==
  LET r == thr.req IN
  CASE r.method = "initialize" -> Answer(thr, RpcResult(r, handle_initialize))
    [] r.method = "notifications/initialized" -> Answer(thr, RpcResult(r, JEmptyObj))
    [] r.method = "tools/list" -> [thr EXCEPT !.pc = "needs_refresh"]
    [] r.method = "tools/call" -> handle_tools_call(thr)
    [] OTHER ->
         Answer(thr, RpcError(Some(request_id(r)), -32601, "Method not found: ",
                              r.method))

\* POST /mcp with a JSON body (mcp_handler, lines 454-460).
mcp_handler(t, r) ==
  /\ th[t].pc = "idle"
  /\ th' = [th EXCEPT ![t] = process_mcp_message([IdleThread EXCEPT !.req = r])]
  /\ UNCHANGED <<catalog, written, nrefresh, now, ticks, push>>

\* What mcp_handler answers to a body that is not a JSON-RPC message.  A
\* falsy document is answered at line 457.  When get_json raises, `data` is
\* never bound: the except clause (lines 461-463) reads it, UnboundLocalError
\* leaves the handler, and the framework answers 500.
unparsed_reply(body) ==
  IF body = "falsy"
  THEN Http(400, RpcError(NoneT, -32700, "Parse error", ""))
  ELSE Http(500, [t |-> "Internal Server Error"])

\* POST /mcp with a body that is not a JSON-RPC message (lines 454-457,
\* 461-463).
mcp_handler_unparsed(t, body) ==
  /\ th[t].pc = "idle"
  /\ th' = [th EXCEPT ![t] =
              [IdleThread EXCEPT !.req = [Request("/mcp", NoneT, "", <<>>, "")
                                            EXCEPT !.body = body],
                                 !.pc = "done",
                                 !.reply = unparsed_reply(body)]]
  /\ UNCHANGED <<catalog, written, nrefresh, now, ticks, push>>

\* The entry into ToolCatalog.refresh (lines 228-234): fresh staging maps.
StartRefresh(thr) ==
  [thr EXCEPT !.pc = "visit", !.idx = 1, !.new_tools = EmptyMap,
              !.health_status = EmptyMap, !.rid = nrefresh + 1,
              !.probe_failed = {}, !.refreshed = TRUE]

\* POST /refresh (force_refresh, line 505): refresh without asking.
force_refresh(t) ==
  /\ th[t].pc = "idle"
  /\ nrefresh < MaxRefreshes
  /\ th' = [th EXCEPT ![t] =
              StartRefresh([IdleThread EXCEPT !.req = Request("/refresh", NoneT, "", <<>>, "")])]
  /\ nrefresh' = nrefresh + 1
  /\ UNCHANGED <<catalog, written, now, ticks, push>>

\* GET /tools (list_tools, line 510), up to its needs_refresh().
list_tools(t) ==
  /\ th[t].pc = "idle"
  /\ th' = [th EXCEPT ![t] =
              [IdleThread EXCEPT !.req = Request("/tools", NoneT, "", <<>>, ""),
                                 !.pc = "needs_refresh"]]
  /\ UNCHANGED <<catalog, written, nrefresh, now, ticks, push>>

\* GET /health (detailed_health), up to its first read of the catalog.
detailed_health(t) ==
  /\ th[t].pc = "idle"
  /\ th' = [th EXCEPT ![t] =
              [IdleThread EXCEPT !.req = Request("/health", NoneT, "", <<>>, ""),
                                 !.pc = "report_last"]]
  /\ UNCHANGED <<catalog, written, nrefresh, now, ticks, push>>

\* GET / (health_check, lines 449-451): one read of the entries, for their
\* number; "not yet loaded" while there are none.
health_check(t) ==
  /\ th[t].pc = "idle"
  /\ th' = [th EXCEPT ![t] =
              [IdleThread EXCEPT
                 !.req = Request("/", NoneT, "", <<>>, ""),
                 !.pc = "done",
                 !.reply = Http(200,
                   [t |-> "healthy",
                    total_tools |->
                      IF DOMAIN catalog.tools # {}
                      THEN Some(Cardinality(DOMAIN catalog.tools) + Len(NATIVE_TOOLS))
                      ELSE NoneT])]]
  /\ UNCHANGED <<catalog, written, nrefresh, now, ticks, push>>

\* Where a request goes on once its refresh, if any, is over.
AfterRefresh(r) == IF r.method = "tools/list" THEN "get_all_tools" ELSE "report_last"

\* History: the catalog was never loaded, or more than the TTL has passed
\* since its last refresh.
Stale(cat, clock) ==
  \/ cat.last_refresh = NoneT
  \/ clock - cat.last_refresh[1] > refresh_interval * TicksPerSecond

\* `if catalog.needs_refresh(): run_async(catalog.refresh())` of
\* handle_tools_list (411-412) and list_tools (510-511).  stale records, for
\* the properties, whether the catalog was never loaded or older than the TTL.
needs_refresh_step(t) ==
  /\ th[t].pc = "needs_refresh"
  /\ LET thr == [th[t] EXCEPT !.stale = Stale(catalog, now)]
     IN  IF needs_refresh(catalog, now)
         THEN /\ nrefresh < MaxRefreshes
              /\ th' = [th EXCEPT ![t] = StartRefresh(thr)]
              /\ nrefresh' = nrefresh + 1
         ELSE /\ th' = [th EXCEPT ![t] = [thr EXCEPT !.pc = AfterRefresh(thr.req)]]
              /\ UNCHANGED nrefresh
  /\ UNCHANGED <<catalog, written, now, ticks, push>>


\* ------------------------------------------------------- tools and arguments
SQL_TOOL == <<"sm", "query", "snowflake">>

HIVEMIND_WRITE == <<"hivemind", "write">>

HIVEMIND_READ == <<"hivemind", "read">>

\* Arguments of a tools/call: an object a tool accepts, and one whose
\* "summary" is a number (hivemind_write calls .replace on it, line 380).
GoodArguments == "{k: 1}"

BadArguments == "{summary: 5}"


\* ------------------------------------------------------------------- inputs
\* What the upstreams answer.
Timeout == [kind |-> "timeout"]           \* httpx.TimeoutException
TransportError == [kind |-> "raise"]      \* any other exception of the POST
Response(status, text) == [kind |-> "response", status |-> status, text |-> text]

\* The tools an upstream advertises: named ones, and one without "name".
ToolNames == {<<"query", "snowflake">>, <<"x">>}
ToolObj(n) == [name |-> Some(n)]
NoNameTool == [name |-> NoneT]
ToolLists ==
  UNION {[1..n -> {ToolObj(x) : x \in ToolNames} \cup {NoNameTool}] : n \in 0..MaxTools}

\* The JSON-RPC answers to tools/list and to tools/call.
ListResult(ts) == JObj(Some([t |-> "tools", tools |-> ts]), NoneT)
UpstreamResult == Envelope(Text("upstream text", <<>>, ""), NoneT)
UpstreamError == [code |-> -32000, message |-> "upstream error"]

Framed(transport, v) == IF transport = "sse" THEN SseBody(v) ELSE JsonBody(v)

\* Every kind of answer to the tools/list of a refresh, in both framings.
AllListReplies(config) ==
  {Timeout, TransportError, Response(500, <<>>)}
  \cup {Response(200, Framed(framing, v)) :
          framing \in {"json", "sse"},
          v \in {InvalidJ, JEmptyObj, JArray, JObj(NoneT, Some(UpstreamError))}
                \cup {ListResult(ts) : ts \in ToolLists}}

\* Every kind of answer to a forwarded tools/call, in both framings.
AllCallReplies ==
  {Timeout, TransportError}
  \cup {Response(200, Framed(framing, v)) :
          framing \in {"json", "sse"},
          v \in {InvalidJ, JNull, JEmptyObj, JArray, JObj(NoneT, NoneT),
                 JObj(Some(UpstreamResult), NoneT),
                 JObj(NoneT, Some(UpstreamError))}}

\* For the runs with two threads: an upstream is down or advertises one tool.
FewListReplies(config) ==
  {Timeout,
   Response(200, Framed(config.transport, ListResult(<<ToolObj(<<"query", "snowflake">>)>>)))}

FewCallReplies ==
  {Timeout, Response(200, JsonBody(JObj(Some(UpstreamResult), NoneT)))}

\* The JSON-RPC messages of the clients.
Messages(ids, names, arguments) ==
  {Request("/mcp", id, m, <<>>, "") :
     id \in ids,
     m \in {"initialize", "notifications/initialized", "notifications/cancelled",
            "tools/list", "resources/list"}}
  \cup {Request("/mcp", id, "tools/call", n, a) :
          id \in ids, n \in names, a \in arguments}

AllMessages ==
  Messages({NoneT, Some(7)},
           native_names \cup {SQL_TOOL, <<"make", "query", "snowflake">>, <<"nonexistent">>},
           {GoodArguments, BadArguments})

FewMessages ==
  Messages({Some(7)}, {<<"gateway", "status">>, SQL_TOOL}, {GoodArguments})

\* For the runs with two threads: the first upstream is down or up, the
\* others are up.
RaceListReplies(config) ==
  IF config.name = sorted_backends[1].name THEN FewListReplies(config)
  ELSE FewListReplies(config) \ {Timeout}

RaceMessages ==
  {Request("/mcp", Some(7), "tools/list", <<>>, ""),
   Request("/mcp", Some(7), "tools/call", <<"gateway", "status">>, GoodArguments),
   Request("/mcp", Some(7), "tools/call", SQL_TOOL, GoodArguments)}

\* For the table with colliding names: an upstream is down, or advertises
\* "status" up to MaxTools times.
STATUS_TOOL == <<"sm", "status">>

ConflictListReplies(config) ==
  {Timeout}
  \cup {Response(200, Framed(config.transport, ListResult(ts))) :
          ts \in UNION {[1..n -> {ToolObj(<<"status">>)}] : n \in 0..MaxTools}}

ConflictMessages ==
  {Request("/mcp", Some(7), "tools/list", <<>>, "")}
  \cup {Request("/mcp", Some(7), "tools/call", n, GoodArguments) :
          n \in native_names \cup {STATUS_TOOL}}

\* The answers to the tools/list of a refresh, by the name of the set.
ListReplies(answers, config) ==
  CASE answers = "all" -> AllListReplies(config)
    [] answers = "few" -> FewListReplies(config)
    [] answers = "race" -> RaceListReplies(config)
    [] answers = "conflict" -> ConflictListReplies(config)


\* ------------------------------------------------------- the refresh, stepwise
\* What the probe GETs do: 200, another status, or (0) an exception.
ProbeReplies == {200, 503, 0}

\* One upstream of the loop of ToolCatalog.refresh: its probe and its
\* tools/list (lines 236-288).  answers names what the upstream may
\* answer.  No exception leaves the loop body: both except clauses catch.
refresh_visit(t, Probes, answers) ==
  /\ th[t].pc = "visit"
  /\ LET thr == th[t]
         config == Table(answers)[thr.idx]
     IN  \E primary \in Probes, alt \in Probes, reply \in ListReplies(answers, config) :
           LET unknown == Put(thr.health_status, config.name,
                              HealthRecord("unknown", 0, None))
               v == VisitBackend(thr.new_tools, config, primary, alt, reply)
           IN  th' = [th EXCEPT ![t] =
                 IF v.escapes THEN Raise(thr)
                 ELSE [thr EXCEPT
                         !.new_tools = v.new_tools,
                         !.health_status = Put(unknown, config.name, v.health),
                         !.probe_failed =
                            IF check_backend_health(config, primary, alt)
                            THEN @ ELSE @ \cup {config.name},
                         !.idx = @ + 1,
                         !.pc = IF thr.idx = Len(Table(answers))
                                THEN "commit_tools" ELSE "visit"]]
  /\ UNCHANGED <<catalog, written, nrefresh, now, ticks, push>>

\* self.tools = new_tools (line 289)
commit_tools(t) ==
  /\ th[t].pc = "commit_tools"
  /\ catalog' = [catalog EXCEPT !.tools = th[t].new_tools]
  /\ written' = [written EXCEPT !.tools = th[t].rid]
  /\ th' = [th EXCEPT ![t].pc = "commit_health"]
  /\ UNCHANGED <<nrefresh, now, ticks, push>>

\* self.backend_health = health_status (line 290)
commit_health(t) ==
  /\ th[t].pc = "commit_health"
  /\ catalog' = [catalog EXCEPT !.backend_health = th[t].health_status]
  /\ written' = [written EXCEPT !.backend_health = th[t].rid,
                                !.probe_failed = th[t].probe_failed]
  /\ th' = [th EXCEPT ![t].pc = "commit_last"]
  /\ UNCHANGED <<nrefresh, now, ticks, push>>

\* self.last_refresh = datetime.now() (line 291), and the return to the caller.
commit_last(t) ==
  /\ th[t].pc = "commit_last"
  /\ catalog' = [catalog EXCEPT !.last_refresh = Some(now)]
  /\ written' = [written EXCEPT !.last_refresh = th[t].rid]
  /\ th' = [th EXCEPT ![t].pc = AfterRefresh(th[t].req),
                      ![t].idx = 0,
                      ![t].new_tools = EmptyMap,
                      ![t].health_status = EmptyMap,
                      ![t].probe_failed = {}]
  /\ UNCHANGED <<nrefresh, now, ticks, push>>

\* `return {"tools": catalog.get_all_tools() + NATIVE_TOOLS}` (line 413)
get_all_tools_step(t) ==
  /\ th[t].pc = "get_all_tools"
  /\ LET thr == [th[t] EXCEPT !.seen.tools = catalog.tools,
                              !.seen.tools_by = written.tools]
     IN  th' = [th EXCEPT ![t] =
                  Answer(thr, RpcResult(thr.req,
                    [t |-> "tools/list",
                     tools |-> get_all_tools(catalog) \cup Range(NATIVE_TOOLS)]))]
  /\ UNCHANGED <<catalog, written, nrefresh, now, ticks, push>>

\* ------------------------------------------------------------ health report
\* get_health_report reads the three fields one after the other
\* (lines 303-305), and another thread may run between two reads.
report_last(t) ==
  /\ th[t].pc = "report_last"
  /\ th' = [th EXCEPT ![t].seen.last_refresh = catalog.last_refresh,
                      ![t].seen.last_by = written.last_refresh,
                      ![t].pc = "report_tools"]
  /\ UNCHANGED <<catalog, written, nrefresh, now, ticks, push>>

report_tools(t) ==
  /\ th[t].pc = "report_tools"
  /\ th' = [th EXCEPT ![t].seen.tools = catalog.tools,
                      ![t].seen.tools_by = written.tools,
                      ![t].pc = "report_health"]
  /\ UNCHANGED <<catalog, written, nrefresh, now, ticks, push>>

\* tools_by_backend of list_tools (lines 515-519), without the native group.
tools_by_backend(tools) ==
  {[backend |-> tools[k].backend, prefixed_name |-> k,
    original_name |-> tools[k].original_name] : k \in DOMAIN tools}

\* The last read, and the reply of the route that asked for the report:
\* GET /health, POST /refresh, GET /tools, or the native tool gateway_status.
report_health(t) ==
  /\ th[t].pc = "report_health"
  /\ LET thr == [th[t] EXCEPT !.seen.backends = catalog.backend_health,
                              !.seen.health_by = written.backend_health]
         report == get_health_report(thr.seen)
     IN  th' = [th EXCEPT ![t] =
           CASE thr.req.route = "/health" ->
                  [thr EXCEPT !.pc = "done", !.reply = Http(200, report)]
             [] thr.req.route = "/refresh" ->
                  [thr EXCEPT !.pc = "done",
                     !.reply = Http(200, [t |-> "refreshed", health |-> report])]
             [] thr.req.route = "/tools" ->
                  [thr EXCEPT !.pc = "done",
                     !.reply = Http(200, [t |-> "tools",
                                          backends |-> tools_by_backend(thr.seen.tools),
                                          health |-> report])]
             [] OTHER ->
                  Answer(thr, RpcResult(thr.req,
                    Envelope([msg |-> "gateway_status", health |-> report], NoneT)))]
  /\ UNCHANGED <<catalog, written, nrefresh, now, ticks, push>>


\* --------------------------------------------------------------- tools/call
\* A variant that answers an unknown name on the JSON-RPC error channel.
unknown_tool_as_rpc_error(thr) ==
  Answer(thr, RpcError(Some(request_id(thr.req)), -32602, "Unknown tool", ""))

\* The reply to a name that is not in the catalog (lines 422-423).
unknown_tool(thr) ==
  Answer(thr, RpcResult(thr.req,
    Envelope(Text("Error: Unknown tool ", thr.req.name, ""), Some(TRUE))))

\* A variant in which the missing entry is subscripted without the test.
snowflake_not_available_raises(thr) == Raise(thr)

\* The reply of a hivemind tool when the SQL tool is not in the catalog
\* (lines 376-377, 388-389).
snowflake_not_available(thr) ==
  Answer(thr, RpcResult(thr.req,
    Envelope(Text("Error: Snowflake backend not available", <<>>, ""), Some(TRUE))))

\* catalog.get_tool(...) of handle_tools_call (line 421) and of the two
\* hivemind tools (lines 375, 387), with what follows up to the upstream call.
\* No refresh precedes the lookup; stale records what the lookup read from.
get_tool_step(t) ==
  /\ th[t].pc = "get_tool"
  /\ LET thr == [th[t] EXCEPT !.stale = Stale(catalog, now)]
         r == thr.req
         native == r.name \in native_names
         tool_info == get_tool(catalog, IF native THEN SQL_TOOL ELSE r.name)
     IN  th' = [th EXCEPT ![t] =
           IF tool_info = NoneT
           THEN IF native THEN snowflake_not_available(thr) ELSE unknown_tool(thr)
           ELSE IF r.name = HIVEMIND_WRITE /\ r.arguments = BadArguments
           THEN Raise([thr EXCEPT !.tool_info = tool_info])
           ELSE [thr EXCEPT !.tool_info = tool_info, !.pc = "call_backend_tool"]]
  /\ UNCHANGED <<catalog, written, nrefresh, now, ticks, push>>

\* call_backend_tool (lines 357-369): one POST; the body decoded by the
\* transport given.  The status code is not looked at.
call_backend_tool(transport, reply) ==
  IF reply.kind \in {"timeout", "raise"}
  THEN [raised |-> TRUE, value |-> JNull]
  ELSE Decode(transport, reply.text)

\* A variant that sends the call without the client's arguments.
PostWithoutArguments(backend_url, tool_name, arguments) ==
  [url |-> backend_url, method |-> "tools/call",
   params |-> [name |-> tool_name, arguments |-> "{}"]]

\* The POST call_backend_tool sends (line 362-366).
Post(backend_url, tool_name, arguments) ==
  [url |-> backend_url, method |-> "tools/call",
   params |-> [name |-> tool_name, arguments |-> arguments]]

HasKey(v, k) == v.t = "obj" /\ v[k] # NoneT

\* handle_tools_call after the call (lines 426-434).
forward_result(got) ==
  IF got.raised
  THEN Envelope(Text("Error calling tool: ", <<>>, "str(e)"), Some(TRUE))
  ELSE IF Truthy(got.value) /\ HasKey(got.value, "result")
  THEN got.value.result[1]
  ELSE IF Truthy(got.value) /\ HasKey(got.value, "error")
  THEN Envelope(Text("Backend error: ", <<>>, "str(error)"), Some(TRUE))
  ELSE IF Truthy(got.value)
  THEN got.value
  ELSE Envelope(Text("No response from backend", <<>>, ""), Some(TRUE))

\* hivemind_write after the call (lines 381-385): the envelope is not read.
hivemind_write_result(got) ==
  IF got.raised
  THEN Envelope(Text("Error writing to Hive Mind: ", <<>>, "str(e)"), Some(TRUE))
  ELSE Envelope(Text("Hive Mind entry created successfully", <<>>, ""), NoneT)

\* hivemind_read after the call (lines 400-404): result.get("result", result)
\* raises AttributeError, inside the try, on None and on an array.
hivemind_read_result(got) ==
  IF got.raised \/ got.value.t \in {"null", "array"}
  THEN Envelope(Text("Error reading Hive Mind: ", <<>>, "str(e)"), Some(TRUE))
  ELSE IF HasKey(got.value, "result") THEN got.value.result[1]
  ELSE got.value

\* The upstream call of a tools/call and the reply made of it.  The hivemind
\* tools pass the SQL text as the arguments and the entry's transport only.
call_backend_tool_step(t, Replies) ==
  /\ th[t].pc = "call_backend_tool"
  /\ \E reply \in Replies :
       LET thr == th[t]
           r == thr.req
           e == thr.tool_info[1]
           native == r.name \in native_names
           post == Post(e.backend_url, e.original_name,
                        IF native THEN "{sql: sql}" ELSE r.arguments)
           got == call_backend_tool(e.transport, reply)
           result == CASE r.name = HIVEMIND_WRITE -> hivemind_write_result(got)
                       [] r.name = HIVEMIND_READ -> hivemind_read_result(got)
                       [] OTHER -> forward_result(got)
       IN  th' = [th EXCEPT ![t] =
                    Answer([thr EXCEPT !.posts = Append(@, post), !.up = Some(reply)],
                           RpcResult(r, result))]
  /\ UNCHANGED <<catalog, written, nrefresh, now, ticks, push>>

\* The response is sent and the thread is free for the next request.
Return(t) ==
  /\ th[t].pc = "done"
  /\ th' = [th EXCEPT ![t] = IdleThread]
  /\ UNCHANGED <<catalog, written, nrefresh, now, ticks, push>>


\* -------------------------------------------------------------- push sessions
\* queue.Queue() (line 467): maxsize 0, which is no bound at all.
maxsize == 0

\* A variant with room for two items.
queue_full_at_two(q) == Len(q) >= 2

\* Queue.full(): a put blocks while it holds.
queue_full(q) == maxsize > 0 /\ Len(q) >= maxsize

\* queue.Queue: put at the tail, get from the head.
queue_put(q, item) == Append(q, item)

\* A variant that takes the newest item.
queue_get_newest(q) == [item |-> q[Len(q)], rest |-> SubSeq(q, 1, Len(q) - 1)]

\* A variant that leaves the item on the queue.
queue_peek(q) == [item |-> Head(q), rest |-> q]

queue_get(q) == [item |-> Head(q), rest |-> Tail(q)]

\* The events of a stream.  json.dumps(message) is the one-line framing of
\* the envelope; serial is history: the put that queued it.
EndpointEvent(sid) == [event |-> "endpoint", session |-> sid]
MessageEvent(item) ==
  [event |-> "message", data |-> JsonBody(item.message), serial |-> item.serial]
Keepalive == [event |-> "keepalive"]

Keepalives ==
  Cardinality({x \in {<<sid, i>> : sid \in DOMAIN stream, i \in 1..(MaxPuts + MaxKeepalives + 1)} :
                 /\ x[2] <= Len(stream[x[1]])
                 /\ stream[x[1]][x[2]] = Keepalive})

\* GET /sse (sse_connect, lines 466-468, 486): a fresh session id, its queue,
\* and the response that will iterate generate().
sse_connect ==
  /\ Cardinality(DOMAIN gen) < MaxSessions
  /\ LET session_id == Cardinality(DOMAIN gen) + 1 IN
     /\ sse_sessions' = Put(sse_sessions, session_id, <<>>)
     /\ gen' = Put(gen, session_id, "start")
     /\ stream' = Put(stream, session_id, <<>>)
  /\ UNCHANGED <<catalog, written, nrefresh, now, ticks, th, enqueued>>

\* generate() up to its first yield (line 470).
generate_endpoint(sid) ==
  /\ sid \in DOMAIN gen /\ gen[sid] = "start"
  /\ stream' = [stream EXCEPT ![sid] = Append(@, EndpointEvent(sid))]
  /\ gen' = [gen EXCEPT ![sid] = "endpoint"]
  /\ UNCHANGED <<catalog, written, nrefresh, now, ticks, th, sse_sessions, enqueued>>

Suspended(sid) == sid \in DOMAIN gen /\ gen[sid] \in {"endpoint", "message", "keepalive"}

\* One turn of the loop in which get() returns (lines 473-474).
generate_message(sid) ==
  /\ Suspended(sid)
  /\ sid \in DOMAIN sse_sessions /\ sse_sessions[sid] # <<>>
  /\ LET got == queue_get(sse_sessions[sid]) IN
     /\ sse_sessions' = [sse_sessions EXCEPT ![sid] = got.rest]
     /\ stream' = [stream EXCEPT ![sid] = Append(@, MessageEvent(got.item))]
  /\ gen' = [gen EXCEPT ![sid] = "message"]
  /\ UNCHANGED <<catalog, written, nrefresh, now, ticks, th, enqueued>>

\* One turn of the loop in which get() times out (lines 475-476).
generate_keepalive(sid) ==
  /\ Suspended(sid)
  /\ sid \in DOMAIN sse_sessions /\ sse_sessions[sid] = <<>>
  /\ Keepalives < MaxKeepalives
  /\ stream' = [stream EXCEPT ![sid] = Append(@, Keepalive)]
  /\ gen' = [gen EXCEPT ![sid] = "keepalive"]
  /\ UNCHANGED <<catalog, written, nrefresh, now, ticks, th, sse_sessions, enqueued>>

\* The client goes away and the server closes the generator: GeneratorExit is
\* raised at the yield it is suspended at.  At the yield of a message it is
\* caught (line 477) and the session is removed (lines 482-483); at the
\* yield of the endpoint and at the yield of a keepalive no clause catches
\* it, and the generator ends without removing the session.
generator_close(sid) ==
  /\ Suspended(sid)
  /\ sse_sessions' =
       IF gen[sid] = "message"
       THEN [s \in DOMAIN sse_sessions \ {sid} |-> sse_sessions[s]]
       ELSE sse_sessions
  /\ gen' = [gen EXCEPT ![sid] = "closed"]
  /\ UNCHANGED <<catalog, written, nrefresh, now, ticks, th, stream, enqueued>>

\* A request to POST /sse/<session_id>/message.
SseRequest(sid, r) == [r EXCEPT !.route = "/sse/message", !.session = sid]

\* POST /sse/<session_id>/message up to the pipeline (sse_message, lines
\* 489-495), with a JSON body.  The id is one that sse_connect has issued
\* (uuid4: nobody posts to an id before it is issued), or 0 for any other.
sse_message(t, sid, r) ==
  /\ th[t].pc = "idle"
  /\ sid = 0 \/ sid \in DOMAIN gen
  /\ Len(enqueued) + Cardinality({u \in Threads : th[u].pc \in {"get_tool", "put"}})
       < MaxPuts
  /\ LET thr == [IdleThread EXCEPT !.req = SseRequest(sid, r)] IN
     th' = [th EXCEPT ![t] =
              IF sid \notin DOMAIN sse_sessions
              THEN [thr EXCEPT !.pc = "done",
                               !.reply = Http(404, [error |-> "Session not found"])]
              ELSE process_mcp_message(thr)]
  /\ UNCHANGED <<catalog, written, nrefresh, now, ticks, push>>

\* POST /sse/<session_id>/message with a body that is not a JSON-RPC message:
\* a falsy document is answered 400 at lines 493-494; when get_json raises,
\* the except clause of lines 498-500 answers 500.  Nothing is queued.
sse_message_unparsed(t, sid, body) ==
  /\ th[t].pc = "idle"
  /\ sid = 0 \/ sid \in DOMAIN gen
  /\ LET thr == [IdleThread EXCEPT
                   !.req = [SseRequest(sid, Request("/mcp", NoneT, "", <<>>, ""))
                              EXCEPT !.body = body],
                   !.pc = "done"]
     IN  th' = [th EXCEPT ![t] =
                  IF sid \notin DOMAIN sse_sessions
                  THEN [thr EXCEPT !.reply = Http(404, [error |-> "Session not found"])]
                  ELSE IF body = "falsy"
                  THEN [thr EXCEPT !.reply = Http(400, [error |-> "No data"])]
                  ELSE [thr EXCEPT !.reply = Http(500, [error |-> "str(e)"])]]
  /\ UNCHANGED <<catalog, written, nrefresh, now, ticks, push>>

\* A variant that swallows the KeyError of a session that is gone and
\* acknowledges all the same.
put_acknowledging(t) ==
  /\ th[t].pc = "put"
  /\ LET sid == th[t].req.session
         item == [message |-> th[t].reply.body, serial |-> Len(enqueued) + 1]
     IN  /\ th' = [th EXCEPT ![t].pc = "done",
                             ![t].reply = Http(200, [status |-> "ok"])]
         /\ IF sid \in DOMAIN sse_sessions
            THEN /\ sse_sessions' = [sse_sessions EXCEPT ![sid] = queue_put(@, item)]
                 /\ enqueued' = Append(enqueued, [session |-> sid, item |-> item])
            ELSE UNCHANGED <<sse_sessions, enqueued>>
  /\ UNCHANGED <<catalog, written, nrefresh, now, ticks, gen, stream>>

\* A variant that looks the queue up with setdefault: a session that has been
\* removed meanwhile comes back with the envelope on its queue.
put_setdefault(t) ==
  /\ th[t].pc = "put"
  /\ LET sid == th[t].req.session
         item == [message |-> th[t].reply.body, serial |-> Len(enqueued) + 1]
         q == IF sid \in DOMAIN sse_sessions THEN sse_sessions[sid] ELSE <<>>
     IN  /\ sse_sessions' = Put(sse_sessions, sid, queue_put(q, item))
         /\ enqueued' = Append(enqueued, [session |-> sid, item |-> item])
         /\ th' = [th EXCEPT ![t].pc = "done",
                             ![t].reply = Http(200, [status |-> "ok"])]
  /\ UNCHANGED <<catalog, written, nrefresh, now, ticks, gen, stream>>

\* sse_sessions[session_id].put(response) and the acknowledgement (lines
\* 496-497); put blocks while the queue is full.  KeyError, when the session has been removed meanwhile, is caught
\* by `except Exception` (lines 498-500).
put(t) ==
  /\ th[t].pc = "put"
  /\ th[t].req.session \in DOMAIN sse_sessions =>
       ~queue_full(sse_sessions[th[t].req.session])
  /\ LET sid == th[t].req.session
         item == [message |-> th[t].reply.body, serial |-> Len(enqueued) + 1]
     IN  IF sid \in DOMAIN sse_sessions
         THEN /\ sse_sessions' = [sse_sessions EXCEPT ![sid] = queue_put(@, item)]
              /\ enqueued' = Append(enqueued, [session |-> sid, item |-> item])
              /\ th' = [th EXCEPT ![t].pc = "done",
                                  ![t].reply = Http(200, [status |-> "ok"])]
         ELSE /\ th' = [th EXCEPT ![t].pc = "done",
                                  ![t].reply = Http(500, [error |-> "str(e)"])]
              /\ UNCHANGED <<sse_sessions, enqueued>>
  /\ UNCHANGED <<catalog, written, nrefresh, now, ticks, gen, stream>>


\* ------------------------------------------------------------ specifications
\* One step of thread t.
Step(t, msgs, Probes, answers, CallReplies) ==
  \/ \E r \in msgs : mcp_handler(t, r)
  \/ force_refresh(t)
  \/ list_tools(t)
  \/ detailed_health(t)
  \/ needs_refresh_step(t)
  \/ refresh_visit(t, Probes, answers)
  \/ commit_tools(t)
  \/ commit_health(t)
  \/ commit_last(t)
  \/ get_all_tools_step(t)
  \/ report_last(t)
  \/ report_tools(t)
  \/ report_health(t)
  \/ get_tool_step(t)
  \/ call_backend_tool_step(t, CallReplies)
  \/ Return(t)

\* The gateway under concurrent requests: two threads, every interleaving of
\* their steps.  The clock stands still; the probes succeed; the first
\* upstream is down or advertises one tool, the others advertise one tool.
Next == \E t \in Threads : Step(t, RaceMessages, {200}, "race", FewCallReplies)

Spec == Init /\ [][Next]_vars

\* The gateway serving one request at a time, against every client message,
\* every kind of body and every kind of answer to a tools/call.
NextSeq ==
  \/ Tick
  \/ Step("t1", AllMessages, ProbeReplies, "few", AllCallReplies)
  \/ \E body \in {"falsy", "invalid"} : mcp_handler_unparsed("t1", body)
  \/ health_check("t1")

SpecSeq == Init /\ [][NextSeq]_vars

\* The first load of the catalog, triggered by the first tools/list or
\* GET /tools, against every kind of answer to the tools/list of the
\* refresh, and the requests that read what it committed.
NextLoad ==
  \/ \E r \in FewMessages : mcp_handler("t1", r)
  \/ list_tools("t1")
  \/ detailed_health("t1")
  \/ needs_refresh_step("t1")
  \/ refresh_visit("t1", ProbeReplies, "all")
  \/ commit_tools("t1")
  \/ commit_health("t1")
  \/ commit_last("t1")
  \/ get_all_tools_step("t1")
  \/ report_last("t1")
  \/ report_tools("t1")
  \/ report_health("t1")
  \/ get_tool_step("t1")
  \/ call_backend_tool_step("t1", FewCallReplies)
  \/ Return("t1")

SpecLoad == Init /\ [][NextLoad]_vars

\* The gateway on the table with colliding names, one request at a time.
NextConflict ==
  \/ \E r \in ConflictMessages : mcp_handler("t1", r)
  \/ needs_refresh_step("t1")
  \/ refresh_visit("t1", {200, 0}, "conflict")
  \/ commit_tools("t1")
  \/ commit_health("t1")
  \/ commit_last("t1")
  \/ get_all_tools_step("t1")
  \/ report_last("t1")
  \/ report_tools("t1")
  \/ report_health("t1")
  \/ get_tool_step("t1")
  \/ call_backend_tool_step("t1", FewCallReplies)
  \/ Return("t1")

SpecConflict == Init /\ [][NextConflict]_vars

\* The messages posted to the push sessions, told apart by their ids.
PushMessages ==
  {Request("/mcp", Some(1), "initialize", <<>>, ""),
   Request("/mcp", Some(2), "tools/call", <<"nonexistent">>, GoodArguments)}

\* The push sessions: clients connect, post to sessions that exist, have
\* existed or never did, and go away, in any interleaving.
NextPush ==
  \/ sse_connect
  \/ \E sid \in 1..MaxSessions :
       \/ generate_endpoint(sid)
       \/ generate_message(sid)
       \/ generate_keepalive(sid)
       \/ generator_close(sid)
  \/ \E t \in Threads :
       \/ \E sid \in 0..MaxSessions, r \in PushMessages : sse_message(t, sid, r)
       \/ get_tool_step(t)
       \/ put(t)
       \/ Return(t)

SpecPush == Init /\ [][NextPush]_vars

\* The messages whose acknowledgement is looked at: notifications without an
\* id, a method the dispatch table does not have, a native call.
AckMessages ==
  {Request("/mcp", NoneT, "notifications/initialized", <<>>, ""),
   Request("/mcp", NoneT, "notifications/cancelled", <<>>, ""),
   Request("/mcp", Some(3), "resources/list", <<>>, ""),
   Request("/mcp", Some(4), "tools/call", HIVEMIND_WRITE, GoodArguments)}

\* The push sessions again, with these messages and with bodies that are not
\* messages, posted one after the other while the streams go on.
NextAck ==
  \/ sse_connect
  \/ \E sid \in 1..MaxSessions :
       \/ generate_endpoint(sid)
       \/ generate_message(sid)
       \/ generator_close(sid)
  \/ \E sid \in 0..MaxSessions, r \in AckMessages : sse_message("t1", sid, r)
  \/ \E sid \in 0..MaxSessions, body \in {"falsy", "invalid"} :
       sse_message_unparsed("t1", sid, body)
  \/ get_tool_step("t1")
  \/ put("t1")
  \/ Return("t1")

SpecAck == Init /\ [][NextAck]_vars

\* The same, with the server iterating every generator it has: a generator
\* that can yield its next event does so (the loop of lines 472-476 blocks
\* for at most the 30 seconds of get).
SpecPushLive ==
  /\ Init /\ [][NextPush]_vars
  /\ \A sid \in 1..MaxSessions :
       WF_vars(generate_endpoint(sid)) /\ WF_vars(generate_message(sid))


\* =================================================================== properties
Done(t) == th[t].pc = "done"

IsCall(t) == th[t].req.method = "tools/call"

\* The JSON-RPC envelope of a reply, and whether it is a success.
Body(t) == th[t].reply.body
IsRpcResult(t) ==
  /\ th[t].reply.status = 200
  /\ "result" \in DOMAIN Body(t)
  /\ "error" \notin DOMAIN Body(t)

\* A tool-call envelope with isError true and one text block.
IsToolError(v) ==
  /\ v.t = "envelope"
  /\ v.isError = Some(TRUE)
  /\ Len(v.content) = 1
  /\ v.content[1].type = "text"

\* ----------------------------------------------------------------------- C1
InRefresh(t) == th[t].pc \in {"visit", "commit_tools", "commit_health", "commit_last"}

\* C1: at most one execution of ToolCatalog.refresh is in flight at any
\* time; a second requester does not start its own.
SingleflightRefresh == Cardinality({t \in Threads : InRefresh(t)}) <= 1

\* ----------------------------------------------------------------------- C2
\* The requests that answer with what they read of the catalog.
ReadsReport(t) ==
  \/ th[t].req.route \in {"/health", "/tools", "/refresh"}
  \/ IsCall(t) /\ th[t].req.name = <<"gateway", "status">>

\* C2: what a reader has read of the catalog (entries, health, last refresh)
\* was all written by the same refresh (or all by none), and every entry it
\* read has its upstream in the health records it read.
AtomicRefreshCommit ==
  \A t \in Threads :
    Done(t) /\ ReadsReport(t) =>
      /\ th[t].seen.tools_by = th[t].seen.health_by
      /\ th[t].seen.health_by = th[t].seen.last_by
      /\ \A k \in DOMAIN th[t].seen.tools :
           th[t].seen.tools[k].backend \in DOMAIN th[t].seen.backends

\* ----------------------------------------------------------------------- C3
SchemaNames(schemas) == {x.name : x \in schemas}

\* The answer of tools/list is the schemas of the catalog entries it read
\* plus the native tools.
ListIsCatalogPlusNative ==
  \A t \in Threads :
    Done(t) /\ th[t].req.method = "tools/list" =>
      /\ IsRpcResult(t)
      /\ Body(t).result.tools =
           {th[t].seen.tools[k].schema : k \in DOMAIN th[t].seen.tools}
           \cup Range(NATIVE_TOOLS)
      /\ SchemaNames(Body(t).result.tools) = DOMAIN th[t].seen.tools \cup native_names

\* A tools/list that found the catalog never loaded or older than the TTL
\* ran a refresh to its end before it answered.
ListEnsuresFreshness ==
  \A t \in Threads :
    Done(t) /\ th[t].req.method = "tools/list" /\ th[t].stale => th[t].refreshed

\* C3: tools/list ensures freshness (a refresh has completed before the
\* answer whenever the catalog was stale or never loaded) and returns
\* exactly the schemas of the committed entries plus every native tool.
ToolsListMerges == ListIsCatalogPlusNative /\ ListEnsuresFreshness

\* ----------------------------------------------------------------------- C4
\* A tools/call that found its name in the catalog.
Forwarded(t) ==
  /\ Done(t) /\ IsCall(t)
  /\ th[t].req.name \notin native_names
  /\ th[t].tool_info # NoneT

\* C4: a tools/call whose name resolves to a catalog entry makes exactly one
\* POST, to the entry's upstream URL, with method tools/call and params
\* {name: the entry's original name, arguments: the client's}, whatever the
\* upstream does.
DispatcherSoundness ==
  \A t \in Threads :
    Forwarded(t) =>
      LET e == th[t].tool_info[1] IN
      /\ Len(th[t].posts) = 1
      /\ th[t].posts[1].url = e.backend_url
      /\ th[t].posts[1].url = Config(e.backend).url
      /\ th[t].posts[1].method = "tools/call"
      /\ th[t].posts[1].params =
           [name |-> e.original_name, arguments |-> th[t].req.arguments]
      /\ Config(e.backend).prefix \o th[t].posts[1].params.name = th[t].req.name

\* A forwarded call whose upstream timed out: still one POST.
DispatcherWitness ==
  \E t \in Threads :
    /\ Forwarded(t)
    /\ th[t].up = Some(Timeout)
    /\ Len(th[t].posts) = 1
    /\ th[t].req.name = <<"make", "query", "snowflake">>
    /\ th[t].posts[1].params.name = <<"query", "snowflake">>


\* ----------------------------------------------------------------------- C5
\* What the upstream call of a tools/call came to, when it failed: a timeout,
\* a transport error, a body that does not decode, or an error envelope.
UpstreamFailed(t) ==
  /\ th[t].up # NoneT
  /\ LET reply == th[t].up[1] IN
     \/ reply.kind \in {"timeout", "raise"}
     \/ /\ reply.kind = "response"
        /\ LET d == Decode(th[t].tool_info[1].transport, reply.text) IN
           \/ d.raised
           \/ d.value.t = "null"
           \/ HasKey(d.value, "error")

\* A native tool that failed before its upstream call: the SQL upstream is
\* missing, or the tool raised.
NativeFailed(t) ==
  /\ th[t].req.name \in {HIVEMIND_WRITE, HIVEMIND_READ}
  /\ th[t].up = NoneT

UnknownName(t) ==
  /\ th[t].req.name \notin native_names
  /\ th[t].tool_info = NoneT

\* C5: every tools/call that fails (unknown name, upstream error envelope,
\* timeout, transport error, unparseable body, native tool failure) is
\* answered with a JSON-RPC success whose result has isError true and a text
\* block; never with a JSON-RPC error.
ToolCallFailuresAreToolErrors ==
  \A t \in Threads :
    Done(t) /\ IsCall(t) /\ (UnknownName(t) \/ UpstreamFailed(t) \/ NativeFailed(t)) =>
      /\ IsRpcResult(t)
      /\ IsToolError(Body(t).result)

\* The same, for the calls that are forwarded to the upstream that owns the
\* name.
ForwardedFailuresAreToolErrors ==
  \A t \in Threads :
    Done(t) /\ IsCall(t) /\ th[t].req.name \notin native_names
    /\ (UnknownName(t) \/ UpstreamFailed(t)) =>
      /\ IsRpcResult(t)
      /\ IsToolError(Body(t).result)

\* ----------------------------------------------------------------------- C6
UnknownCall(t) ==
  /\ Done(t) /\ IsCall(t)
  /\ th[t].req.name \notin native_names
  /\ th[t].req.name \notin DOMAIN catalog.tools

\* C6: a tools/call for a name that is neither native nor in the catalog is
\* answered HTTP 200 with a JSON-RPC success echoing the request id, whose
\* result is {content: [text "Error: Unknown tool '<name>'"], isError: true},
\* and no upstream is contacted.
UnknownToolSurface ==
  \A t \in Threads :
    UnknownCall(t) =>
      /\ th[t].reply.status = 200
      /\ IsRpcResult(t)
      /\ Body(t).jsonrpc = "2.0"
      /\ th[t].req.id # NoneT => Body(t).id = th[t].req.id
      /\ Body(t).result =
           [t |-> "envelope",
            content |-> <<[type |-> "text",
                           text |-> [msg |-> "Error: Unknown tool ",
                                     name |-> th[t].req.name, detail |-> ""]]>>,
            isError |-> Some(TRUE)]
      /\ th[t].posts = <<>>

\* An unknown name asked of a loaded catalog, with an id.
UnknownToolWitness ==
  \E t \in Threads :
    /\ UnknownCall(t)
    /\ th[t].req.name = <<"nonexistent">>
    /\ th[t].req.id = Some(7)
    /\ DOMAIN catalog.tools # {}
    /\ Body(t).id = Some(7)

\* ----------------------------------------------------------------------- C7
\* A refresh has committed and nothing of another one is in the catalog.
Committed == written.tools # 0 /\ written.tools = written.backend_health

EntriesOf(b) == {k \in DOMAIN catalog.tools : catalog.tools[k].backend = b}

\* C7: after a refresh commits, an upstream whose recorded status is not
\* healthy has no entries in the catalog, also when it failed partway through
\* the ingestion of its tools.
FailedUpstreamsContributeNothing ==
  Committed =>
    \A b \in DOMAIN catalog.backend_health :
      catalog.backend_health[b].status # "healthy" => EntriesOf(b) = {}

\* ----------------------------------------------------------------------- C8
\* The health report a gateway_status call answered with.
ReportOf(t) == Body(t).result.content[1].text.health

AnsweredStatus(t) ==
  /\ Done(t) /\ IsCall(t)
  /\ th[t].req.name = <<"gateway", "status">>

\* C8: a refresh visits every enabled upstream and commits with a health
\* record for each, whatever each upstream does (probe failure, error,
\* timeout); the request that ran it succeeds, tools/list answers with the
\* tools of the catalog, and an upstream whose probe failed is reported
\* unhealthy with a non-null error.
UpstreamFailureNotFatal ==
  /\ \A t \in Threads :
       /\ th[t].pc \in {"commit_tools", "commit_health", "commit_last"} =>
            DOMAIN th[t].health_status = EnabledNames
       /\ Done(t) /\ th[t].refreshed => th[t].reply.status = 200
       /\ Done(t) /\ th[t].req.method = "tools/list" =>
            /\ IsRpcResult(t)
            /\ get_all_tools(catalog) \subseteq Body(t).result.tools
       /\ AnsweredStatus(t) /\ written.backend_health # 0 =>
            \A b \in written.probe_failed :
              /\ ReportOf(t).backends[b].status = "unhealthy"
              /\ ReportOf(t).backends[b].error # None
  /\ written.backend_health # 0 =>
       /\ DOMAIN catalog.backend_health = EnabledNames
       /\ \A b \in written.probe_failed :
            /\ catalog.backend_health[b].status = "unhealthy"
            /\ catalog.backend_health[b].error # None

\* A refresh in which one probe failed, one upstream timed out and one
\* answered, then reported by gateway_status.
UpstreamFailureWitness ==
  \E t \in Threads :
    /\ AnsweredStatus(t)
    /\ written.probe_failed = {"snowflake"}
    /\ ReportOf(t).backends["snowflake"].status = "unhealthy"
    /\ \E b \in EnabledNames : ReportOf(t).backends[b].status \in {"timeout", "error"}
    /\ ReportOf(t).total_tools > 0

\* ----------------------------------------------------------------------- C9
\* C9: every key of the committed catalog is its upstream's prefix, "_" and
\* the name the upstream advertised; the schema carries the key as its name,
\* the entry carries the URL of the upstream whose prefix leads the key, and
\* stripping the prefix yields the advertised name.
NamespaceClosure ==
  \A k \in DOMAIN catalog.tools :
    LET e == catalog.tools[k]
        c == Config(e.backend)
    IN  /\ e.backend \in EnabledNames
        /\ k = c.prefix \o e.original_name
        /\ e.schema.name = k
        /\ e.backend_url = c.url
        /\ SubSeq(k, Len(c.prefix) + 1, Len(k)) = e.original_name
        /\ e.original_name \in ToolNames

\* A committed catalog with entries of two upstreams.
NamespaceWitness ==
  /\ Committed
  /\ \E j, k \in DOMAIN catalog.tools :
       /\ catalog.tools[j].backend # catalog.tools[k].backend
       /\ catalog.tools[j].original_name = catalog.tools[k].original_name


\* ---------------------------------------------------------------------- C10
\* The puts on one session's queue, in the order they happened.
RECURSIVE PutsOf(_, _)
PutsOf(sid, puts) ==
  IF puts = <<>> THEN <<>>
  ELSE IF Head(puts).session = sid
       THEN <<Head(puts).item>> \o PutsOf(sid, Tail(puts))
       ELSE PutsOf(sid, Tail(puts))

\* The message events of a stream, in the order they were yielded.
RECURSIVE MessagesOf(_)
MessagesOf(events) ==
  IF events = <<>> THEN <<>>
  ELSE IF Head(events).event = "message"
       THEN <<Head(events)>> \o MessagesOf(Tail(events))
       ELSE MessagesOf(Tail(events))

\* C10: the message events of a session's stream carry the envelopes put on
\* that session's queue, in the order of the puts: the n-th message event is
\* the n-th put of that session, so none is emitted twice, out of order or
\* on another session's stream.
PushOrdering ==
  \A sid \in DOMAIN stream :
    LET emitted == MessagesOf(stream[sid])
        puts == PutsOf(sid, enqueued)
    IN  /\ Len(emitted) <= Len(puts)
        /\ \A i \in 1..Len(emitted) :
             /\ emitted[i].serial = puts[i].serial
             /\ emitted[i].data = JsonBody(puts[i].message)

\* Two sessions; one has emitted two envelopes that distinct requests put,
\* the other has emitted one.
PushOrderingWitness ==
  \E sid, other \in DOMAIN stream :
    /\ sid # other
    /\ Len(MessagesOf(stream[sid])) = 2
    /\ MessagesOf(stream[sid])[1].data # MessagesOf(stream[sid])[2].data
    /\ Len(MessagesOf(stream[other])) = 1

\* ---------------------------------------------------------------------- C11
\* C11: once a session's stream has closed, whichever event it emitted last,
\* the session is no longer in the sessions registry (so that a later POST
\* to its message URL finds no session and is answered 404).
SessionCloseRemoves ==
  \A sid \in DOMAIN gen : gen[sid] = "closed" => sid \notin DOMAIN sse_sessions

\* ---------------------------------------------------------------------- C12
\* The bound of the outbound queue the specification asks for (recommended
\* 256), at the scale of the runs.
QueueBound == 2

\* C12: no session's outbound queue ever holds more envelopes than the
\* configured bound.
BoundedOutboundQueue ==
  \A sid \in DOMAIN sse_sessions : Len(sse_sessions[sid]) <= QueueBound

\* ---------------------------------------------------------------------- C13
\* C13: a POST that has its envelope ready can always put it and return,
\* whatever the queue holds and whatever the stream's consumer does; and when
\* it has returned {status: ok} the envelope is on the queue or was emitted.
SlowConsumerSafety ==
  \A t \in Threads :
    /\ th[t].pc = "put" => ENABLED put(t)
    /\ Done(t) /\ th[t].req.route = "/sse/message" /\ th[t].reply.status = 200 =>
         /\ th[t].reply.body = [status |-> "ok"]
         /\ \E i \in DOMAIN enqueued : enqueued[i].session = th[t].req.session

\* A POST has returned while MaxPuts envelopes wait on the queue of a session
\* whose stream has not emitted any of them.
SlowConsumerWitness ==
  \E t \in Threads :
    /\ Done(t) /\ th[t].req.route = "/sse/message"
    /\ th[t].reply = Http(200, [status |-> "ok"])
    /\ th[t].req.session \in DOMAIN sse_sessions
    /\ Len(sse_sessions[th[t].req.session]) = MaxPuts
    /\ \A i \in DOMAIN stream[th[t].req.session] :
         stream[th[t].req.session][i].event # "message"

\* ---------------------------------------------------------------------- C14
\* The first event of every stream is the endpoint event of its own session,
\* and no message event comes before it.
EndpointFirst ==
  \A sid \in DOMAIN stream :
    stream[sid] # <<>> =>
      /\ stream[sid][1] = [event |-> "endpoint", session |-> sid]
      /\ \A i \in 2..Len(stream[sid]) : stream[sid][i].event # "endpoint"

\* A POST to a session that is in the registry is answered {status: ok} and
\* nothing else; its envelope went to the queue of that session.
AckOnly ==
  \A t \in Threads :
    Done(t) /\ th[t].req.route = "/sse/message"
    /\ th[t].req.session \in DOMAIN sse_sessions =>
      /\ th[t].reply = [t |-> "http", status |-> 200, body |-> [status |-> "ok"]]
      /\ \E i \in DOMAIN enqueued :
           /\ enqueued[i].session = th[t].req.session
           /\ enqueued[i].item.message.id = th[t].req.id

\* The n-th put of the run has been emitted on the stream of its session.
Emitted(n) ==
  \E i \in DOMAIN stream[enqueued[n].session] :
    LET e == stream[enqueued[n].session][i] IN
    /\ e.event = "message"
    /\ e.serial = enqueued[n].item.serial
    /\ e.data = JsonBody(enqueued[n].item.message)

\* C14: the endpoint event of the session comes first on its stream, before
\* every message event; a POST to the session's message URL is answered with
\* {status: ok} only; and its envelope is eventually emitted as a message
\* event on the stream of that session, unless the stream closes.
PushRoundTrip ==
  /\ [](EndpointFirst /\ AckOnly)
  /\ \A n \in 1..MaxPuts :
       (Len(enqueued) >= n) ~>
         (Len(enqueued) >= n /\ (Emitted(n) \/ gen[enqueued[n].session] = "closed"))

\* The envelope of a tools/call posted to session 2 has been emitted on the
\* stream of session 2, after its endpoint event, and the stream is open.
PushRoundTripWitness ==
  /\ 2 \in DOMAIN stream /\ gen[2] = "message"
  /\ \E n \in DOMAIN enqueued :
       /\ enqueued[n].session = 2
       /\ enqueued[n].item.message.id = Some(2)
       /\ Emitted(n)
  /\ stream[2][1].event = "endpoint"

\* ---------------------------------------------------------------------- C15
\* An upstream whose tools/list was ingested with at least one tool.  On the
\* table with colliding names every advertised tool is "status".
Produced(b) ==
  /\ b \in DOMAIN catalog.backend_health
  /\ catalog.backend_health[b].status = "healthy"
  /\ catalog.backend_health[b].tools > 0

\* The rows of the table that produce the prefixed name k, in sorted order.
Producers(k) ==
  SelectSeq(sorted_conflict,
            LAMBDA c : c.prefix \o <<"status">> = k /\ Produced(c.name))

LazyRefreshOnCall ==
  \A t \in Threads :
    Done(t) /\ IsCall(t) /\ th[t].req.name \notin native_names /\ th[t].stale =>
      th[t].refreshed

\* ---------------------------------------------------------------------- C17
NativeCall(t) ==
  /\ Done(t) /\ IsCall(t)
  /\ th[t].req.name \in
       {<<"hivemind", "write">>, <<"hivemind", "read">>, <<"gateway", "status">>}

\* C17: a tools/call for a native name is answered by the native handler and
\* is never routed by a catalog entry of the same name: gateway_status
\* answers its report without any POST, the hivemind tools look up the SQL
\* tool only, and no POST goes to the upstream of a colliding entry.
NativePrecedence ==
  \A t \in Threads :
    NativeCall(t) =>
      /\ IsRpcResult(t)
      /\ th[t].req.name = <<"gateway", "status">> =>
           /\ th[t].posts = <<>>
           /\ th[t].tool_info = NoneT
           /\ Body(t).result.content[1].text.msg = "gateway_status"
      /\ th[t].tool_info # NoneT =>
           th[t].tool_info[1].schema.name = <<"sm", "query", "snowflake">>
      /\ th[t].req.name \in DOMAIN catalog.tools =>
           \A i \in DOMAIN th[t].posts :
             th[t].posts[i].url # catalog.tools[th[t].req.name].backend_url

\* gateway_status is called while the catalog holds an entry of that name,
\* owned by a healthy upstream; the native report is the answer.
NativePrecedenceWitness ==
  \E t \in Threads :
    /\ NativeCall(t)
    /\ th[t].req.name = <<"gateway", "status">>
    /\ <<"gateway", "status">> \in DOMAIN catalog.tools
    /\ catalog.tools[<<"gateway", "status">>].backend = "shadow"
    /\ ReportOf(t).backends["shadow"].status = "healthy"
    /\ th[t].posts = <<>>

\* ---------------------------------------------------------------------- C18
HivemindCall(t) ==
  /\ IsCall(t)
  /\ th[t].req.name \in {<<"hivemind", "write">>, <<"hivemind", "read">>}

NoSqlTool == <<"sm", "query", "snowflake">> \notin DOMAIN catalog.tools

\* A hivemind call answered from a catalog without the SQL tool: a tool-call
\* envelope with isError true, and no upstream request.
DegradedAnswer ==
  \A t \in Threads :
    Done(t) /\ HivemindCall(t) /\ NoSqlTool =>
      /\ IsRpcResult(t)
      /\ IsToolError(Body(t).result)
      /\ Body(t).result.content[1].text.msg = "Error: Snowflake backend not available"
      /\ th[t].posts = <<>>
      /\ th[t].up = NoneT
      /\ ENABLED Return(t)

\* The steps of a hivemind call leave the catalog as it is.
DegradedStep ==
  \A t \in Threads :
    HivemindCall(t) /\ th[t].pc # "done" => catalog' = catalog /\ written' = written

\* C18: when the catalog has no entry for sm_query_snowflake, hivemind_write
\* and hivemind_read answer with an isError envelope, make no upstream
\* request and leave the catalog unchanged, and the thread is free for the
\* next request.
GracefulDegradation == []DegradedAnswer /\ [][DegradedStep]_vars

\* hivemind_write, with arguments it could not have handled, is answered from
\* a loaded catalog that has tools but not the SQL tool.
GracefulDegradationWitness ==
  \E t \in Threads :
    /\ Done(t) /\ HivemindCall(t) /\ NoSqlTool
    /\ th[t].req.name = <<"hivemind", "write">>
    /\ th[t].req.arguments = BadArguments
    /\ DOMAIN catalog.tools # {}
    /\ catalog.backend_health["snowflake"].status = "timeout"
    /\ IsToolError(Body(t).result)

\* ---------------------------------------------------------------------- C19
\* A JSON-RPC message without an id, received on POST /mcp.
Notification(t) ==
  /\ th[t].req.route = "/mcp"
  /\ th[t].req.body = "json"
  /\ th[t].req.id = NoneT

\* C19: every message without an id received on the sync endpoint, whatever
\* its method, is answered with a body whose result is the empty object.
NotificationAck ==
  \A t \in Threads :
    Done(t) /\ Notification(t) =>
      /\ IsRpcResult(t)
      /\ Body(t).result = JEmptyObj

\* The same for the one method the dispatch table knows as a notification.
InitializedAck ==
  \A t \in Threads :
    Done(t) /\ Notification(t) /\ th[t].req.method = "notifications/initialized" =>
      /\ IsRpcResult(t)
      /\ Body(t).result = JEmptyObj

\* ---------------------------------------------------------------------- C20
\* C20: a request to the sync endpoint whose body is not JSON is answered
\* with {jsonrpc: "2.0", id: null, error: {code: -32700, message: "Parse
\* error"}}, and in no other way.
ParseErrors ==
  \A t \in Threads :
    Done(t) /\ th[t].req.route = "/mcp" /\ th[t].req.body = "invalid" =>
      th[t].reply.body =
        [jsonrpc |-> "2.0", id |-> NoneT,
         error |-> [code |-> -32700, message |-> "Parse error", detail |-> ""]]

\* ------------------------------------------------------------------ decoding
\* The bodies an SSE upstream can answer with: up to MaxLines lines, each with
\* or without the "data: " prefix, each followed by JSON or by other text.
MaxLines == 3

Payloads == {InvalidJ, JNull, JEmptyObj, JObj(Some(UpstreamResult), NoneT)}

Bodies ==
  UNION {[1..n -> {Line(d, p) : d \in BOOLEAN, p \in Payloads}] : n \in 0..MaxLines}

\* A call to an SSE upstream has just received its response.
InitDecode ==
  /\ catalog = [tools |-> EmptyMap, backend_health |-> EmptyMap, last_refresh |-> NoneT]
  /\ written = [tools |-> 0, backend_health |-> 0, last_refresh |-> 0,
                probe_failed |-> {}]
  /\ nrefresh = 0
  /\ now = 0
  /\ ticks = 0
  /\ \E text \in Bodies :
       th = [t \in Threads |->
               IF t = "t1"
               THEN [IdleThread EXCEPT !.pc = "parse_sse_response",
                                       !.up = Some(Response(200, text))]
               ELSE IdleThread]
  /\ sse_sessions = EmptyMap
  /\ gen = EmptyMap
  /\ stream = EmptyMap
  /\ enqueued = <<>>

\* `return parse_sse_response(response.text)` (line 368).
parse_sse_response_step(t) ==
  /\ th[t].pc = "parse_sse_response"
  /\ th' = [th EXCEPT ![t] =
              [@ EXCEPT !.pc = "parsed",
                        !.reply = parse_sse_response(th[t].up[1].text)]]
  /\ UNCHANGED <<catalog, written, nrefresh, now, ticks, push>>

NextDecode == \E t \in Threads : parse_sse_response_step(t)

SpecDecode == InitDecode /\ [][NextDecode]_vars

\* ---------------------------------------------------------------------- C21
\* A JSON-RPC message that carries an id, received on POST /mcp.
WithId(t) ==
  /\ th[t].req.route = "/mcp"
  /\ th[t].req.body = "json"
  /\ th[t].req.id # NoneT

\* The methods of the dispatch table.
KnownMethods == {"initialize", "notifications/initialized", "tools/list", "tools/call"}

\* The request ran no handler: it read nothing of the catalog and called no
\* upstream.
NoHandlerRan(t) ==
  /\ th[t].seen = NoSeen
  /\ th[t].tool_info = NoneT
  /\ th[t].posts = <<>>
  /\ ~th[t].refreshed

\* C21: the response to a parsed request that carries an id echoes the id and
\* carries exactly one of result and error; the four methods of the dispatch
\* table yield result, every other method yields error -32601 "Method not
\* found: <method>" without running a handler.
ResponseShape ==
  \A t \in Threads :
    Done(t) /\ WithId(t) =>
      LET b == Body(t) IN
      /\ b.id = th[t].req.id
      /\ ("result" \in DOMAIN b) # ("error" \in DOMAIN b)
      /\ IF th[t].req.method \in KnownMethods
         THEN "result" \in DOMAIN b
         ELSE /\ "error" \in DOMAIN b
              /\ b.error = [code |-> -32601, message |-> "Method not found: ",
                            detail |-> th[t].req.method]
              /\ NoHandlerRan(t)

\* The same, but for the tools/call whose handler raised.
ResponseShapeUnlessRaised ==
  \A t \in Threads :
    Done(t) /\ WithId(t) =>
      LET b == Body(t) IN
      /\ b.id = th[t].req.id
      /\ ("result" \in DOMAIN b) # ("error" \in DOMAIN b)
      /\ IF th[t].req.method \in KnownMethods
         THEN \/ "result" \in DOMAIN b
              \/ /\ th[t].req.name = HIVEMIND_WRITE
                 /\ th[t].req.arguments = BadArguments
                 /\ b.error.code = -32603
         ELSE /\ "error" \in DOMAIN b
              /\ b.error = [code |-> -32601, message |-> "Method not found: ",
                            detail |-> th[t].req.method]
              /\ NoHandlerRan(t)

\* ---------------------------------------------------------------------- C22
\* The lines of a body that begin with "data: " and go on with valid JSON.
DataLines(text) ==
  {i \in 1..Len(text) : text[i].data /\ text[i].payload # InvalidJ}

\* C22: parse_sse_response returns the JSON value of the first line that
\* begins with "data: " and whose remainder is valid JSON, whatever the other
\* lines are, and no value when there is no such line; so the body
\* "event: message", "data: " + json(V), "" decodes to V.
SseFramingDecode ==
  \A t \in Threads :
    th[t].pc = "parsed" =>
      LET text == th[t].up[1].text
          at == DataLines(text)
      IN  /\ at = {} => th[t].reply = JNull
          /\ at # {} =>
               \E i \in at : /\ \A j \in at : i <= j
                             /\ th[t].reply = text[i].payload
          /\ \A v \in Payloads \ {InvalidJ} :
               text = SseBody(v) => th[t].reply = v

\* A body in which a "data: " line that is not JSON and a line of JSON
\* without the prefix come before the line that is returned.
SseFramingDecodeWitness ==
  \E t \in Threads :
    /\ th[t].pc = "parsed"
    /\ LET text == th[t].up[1].text IN
       /\ Len(text) = 3
       /\ text[1].data /\ text[1].payload = InvalidJ
       /\ ~text[2].data /\ text[2].payload = JEmptyObj
       /\ text[3].data
       /\ th[t].reply = JObj(Some(UpstreamResult), NoneT)

\* ---------------------------------------------------------------------- C23
\* A refresh is visiting the upstreams and has not reached its commit.
Visiting(t) == th[t].pc = "visit"

\* C23: while a refresh is visiting the upstreams and before its commit, the
\* catalog the concurrent readers see (entries, health records, time of the
\* last refresh) stays what it was: no step changes it.
StagedBuild ==
  [][(\E t \in Threads : Visiting(t)) => UNCHANGED catalog]_vars

\* The steps of the visit themselves write nothing to the catalog, and the
\* entry set of the catalog is never a partly built one: it is empty or the
\* whole staged set of the refresh that wrote it.
StagedVisits ==
  [][\A t \in Threads : Visiting(t) /\ th'[t] # th[t] => UNCHANGED catalog]_vars

\* ---------------------------------------------------------------------- C24
\* C24: needs_refresh() is true exactly when the catalog was never refreshed
\* or more than the 300 seconds of the TTL have passed since the last
\* refresh, whatever the time that has passed (fractions of a second above
\* 300 and a day or more included).
StalenessPredicate ==
  needs_refresh(catalog, now) <=> Stale(catalog, now)

\* One direction holds: needs_refresh() is never true of a catalog that is
\* younger than the TTL.
StalenessSound ==
  needs_refresh(catalog, now) => Stale(catalog, now)

\* ---------------------------------------------------------------------- C25
\* What the upstream of a forwarded call sent back, decoded by the entry's
\* transport; raised when there was a transport failure or no decoding.
UpstreamEnvelope(t) ==
  LET reply == th[t].up[1] IN
  IF reply.kind \in {"timeout", "raise"}
  THEN [raised |-> TRUE, value |-> JNull]
  ELSE Decode(th[t].tool_info[1].transport, reply.text)

SynthesizedError(res, msg) ==
  /\ IsToolError(res)
  /\ res.content[1].text.msg = msg

\* C25: the result of a forwarded tools/call is the `result` member of the
\* upstream's envelope when it has one, and otherwise a synthesized envelope
\* with isError true: "Backend error: ..." for an envelope with `error`, "No
\* response from backend" when nothing parseable came back, "Error calling
\* tool: ..." on a transport failure.  The upstream's raw JSON-RPC envelope
\* is never the result.
UniformResultEnvelope ==
  \A t \in Threads :
    Forwarded(t) /\ th[t].up # NoneT =>
      LET got == UpstreamEnvelope(t)
          res == Body(t).result
      IN  /\ IsRpcResult(t)
          /\ IF ~got.raised /\ HasKey(got.value, "result")
             THEN res = got.value.result[1]
             ELSE \/ got.raised /\ SynthesizedError(res, "Error calling tool: ")
                  \/ /\ ~got.raised /\ HasKey(got.value, "error")
                     /\ SynthesizedError(res, "Backend error: ")
                  \/ /\ ~got.raised /\ ~HasKey(got.value, "error")
                     /\ SynthesizedError(res, "No response from backend")
          /\ got.raised \/ res # got.value

\* The same for the upstream answers that are null, {} or an object with
\* `result` or `error`.
UniformResultForEnvelopes ==
  \A t \in Threads :
    Forwarded(t) /\ th[t].up # NoneT =>
      LET got == UpstreamEnvelope(t)
          res == Body(t).result
      IN  got.raised \/ ~Truthy(got.value) \/ HasKey(got.value, "result")
          \/ HasKey(got.value, "error")
          => /\ IsRpcResult(t)
             /\ IF ~got.raised /\ HasKey(got.value, "result")
                THEN res = got.value.result[1]
                ELSE IsToolError(res)

\* ---------------------------------------------------------------------- C26
\* A POST to a session's message URL is in the pipeline, past the lookup of
\* line 490, and the session has been closed and removed meanwhile.
InFlightOnRemoved(t) ==
  /\ th[t].req.route = "/sse/message"
  /\ th[t].pc \in {"get_tool", "put"}
  /\ th[t].req.session \in DOMAIN gen
  /\ gen[th[t].req.session] = "closed"
  /\ th[t].req.session \notin DOMAIN sse_sessions

\* The step that ends such a POST: nothing is put on any queue, the registry
\* is left as it is, and the POST is answered.
DroppedStep ==
  \A t \in Threads :
    InFlightOnRemoved(t) /\ th'[t].pc = "done" =>
      /\ enqueued' = enqueued
      /\ sse_sessions' = sse_sessions
      /\ th'[t].reply.t = "http"

\* A session that was removed does not come back.
NoReinsert ==
  \A sid \in DOMAIN gen :
    sid \notin DOMAIN sse_sessions => sid \notin DOMAIN sse_sessions'

\* C26: when a push session is closed and removed while a POST addressed to
\* it is still in the pipeline, the envelope of that POST is dropped: it is
\* put on no session's queue, the removed session is not inserted again, and
\* the other sessions are served as before.
InFlightDropped == [][DroppedStep /\ NoReinsert]_vars

\* A POST was dropped in this way while another session is still open, and
\* that session has been given an envelope.
InFlightDroppedWitness ==
  \E t \in Threads :
    /\ Done(t)
    /\ th[t].req.route = "/sse/message"
    /\ th[t].reply.status = 500
    /\ gen[th[t].req.session] = "closed"
    /\ th[t].req.session \notin DOMAIN sse_sessions
    /\ \E other \in DOMAIN sse_sessions :
         /\ gen[other] # "closed"
         /\ \E i \in 1..Len(enqueued) : enqueued[i].session = other

\* ---------------------------------------------------------------------- C27
\* The requests that are not to write the catalog: initialize,
\* notifications/initialized, tools/call, GET / and GET /health.
ReadOnlyRequest(r) ==
  \/ r.route \in {"/", "/health"}
  \/ /\ r.route = "/mcp" /\ r.body = "json"
     /\ r.method \in {"initialize", "notifications/initialized", "tools/call"}

\* t takes a step of such a request.
ReadOnlyStep(t) ==
  /\ th'[t] # th[t]
  /\ ReadOnlyRequest(th[t].req) \/ ReadOnlyRequest(th'[t].req)

\* The steps of the refresh procedure that publish (lines 289-291).
InCommit(t) == th[t].pc \in {"commit_tools", "commit_health", "commit_last"}

\* C27: only the refresh procedure writes the catalog.  The entries, the
\* health records and the time of the last refresh are left as they are by
\* initialize, by notifications/initialized, by every tools/call (native or
\* forwarded, answered or failed, timed out), by GET / and by GET /health.
CatalogFrame ==
  [][/\ \A t \in Threads : ReadOnlyStep(t) => UNCHANGED catalog
     /\ catalog' # catalog => \E t \in Threads : InCommit(t) /\ th[t].refreshed]_vars

\* A forwarded call has timed out at its upstream, with a catalog that was
\* loaded before and is as the refresh left it.
CatalogFrameWitness ==
  \E t \in Threads :
    /\ Forwarded(t)
    /\ th[t].up = Some(Timeout)
    /\ ~th[t].refreshed
    /\ catalog.last_refresh # NoneT
    /\ th[t].req.name \in DOMAIN catalog.tools

\* ---------------------------------------------------------------------- C28
OkReply == [t |-> "http", status |-> 200, body |-> [status |-> "ok"]]

\* The step in which a POST to a message URL gets its acknowledgement: the
\* envelope the pipeline made of the request is put, once, at the tail of
\* the queue of the session the POST was addressed to.
AckStep ==
  \A t \in Threads :
    th'[t].reply = OkReply /\ th[t].reply # OkReply =>
      LET sid == th[t].req.session
          n == Len(enqueued')
      IN  /\ th[t].req.route = "/sse/message"
          /\ n = Len(enqueued) + 1
          /\ SubSeq(enqueued', 1, n - 1) = enqueued
          /\ enqueued'[n].session = sid
          /\ enqueued'[n].item.message = th[t].reply.body
          /\ enqueued'[n].item.message.id = Some(request_id(th[t].req))
          /\ sid \in DOMAIN sse_sessions
          /\ sse_sessions' = [sse_sessions EXCEPT ![sid] = Append(@, enqueued'[n].item)]

\* Nothing is queued without an acknowledgement.
EnqueueStep ==
  enqueued' # enqueued =>
    \E t \in Threads : th'[t].reply = OkReply /\ th[t].reply # OkReply

\* C28: a POST to a session's message URL is answered {status: "ok"} only
\* once its envelope is on the queue of that session, and every POST so
\* answered has queued exactly one envelope; the same for notifications
\* without an id and for requests answered with a JSON-RPC error.
AckImpliesEnqueue == [][AckStep /\ EnqueueStep]_vars

\* A notification without an id that the dispatch table does not have has
\* been acknowledged: its envelope, a JSON-RPC error, is in the queue.
AckImpliesEnqueueWitness ==
  \E t \in Threads :
    /\ Done(t)
    /\ th[t].reply = OkReply
    /\ th[t].req.id = NoneT
    /\ th[t].req.method = "notifications/cancelled"
    /\ \E i \in DOMAIN enqueued :
         /\ enqueued[i].session = th[t].req.session
         /\ "error" \in DOMAIN enqueued[i].item.message
         /\ enqueued[i].item.message.error.code = -32601

\* ---------------------------------------------------------------------- C29
\* The upstreams the committed health records call healthy.
HealthyBackends ==
  {b \in DOMAIN catalog.backend_health : catalog.backend_health[b].status = "healthy"}

\* The sum of the `tools` counts of the health records of a set of upstreams.
RECURSIVE SumOfCounts(_)
SumOfCounts(bs) ==
  IF bs = {} THEN 0
  ELSE LET b == CHOOSE x \in bs : TRUE IN
       catalog.backend_health[b].tools + SumOfCounts(bs \ {b})

\* The health report of the catalog as it is.
CommittedReport ==
  get_health_report([NoSeen EXCEPT !.last_refresh = catalog.last_refresh,
                                   !.tools = catalog.tools,
                                   !.backends = catalog.backend_health])

\* C29: after a refresh commit, the `tools` count in the health record of
\* every healthy upstream is the number of catalog entries whose backend is
\* that upstream, and total_tools of the report is the sum of those counts,
\* whatever lists the upstreams returned (lists with repeated names too).
HealthCountsMatchCatalog ==
  Committed =>
    /\ \A b \in HealthyBackends :
         catalog.backend_health[b].tools = Cardinality(EntriesOf(b))
    /\ CommittedReport.total_tools = SumOfCounts(HealthyBackends)

\* The first half alone: the count of a healthy upstream is the number of
\* its entries.
HealthCountIsEntryCount ==
  Committed =>
    \A b \in HealthyBackends :
      catalog.backend_health[b].tools = Cardinality(EntriesOf(b))

\* The count of a healthy upstream is never below the number of its entries.
HealthCountsBoundEntries ==
  Committed =>
    \A b \in HealthyBackends :
      catalog.backend_health[b].tools >= Cardinality(EntriesOf(b))

\* ---------------------------------------------------------------------- C30
\* A hivemind_write call that found the SQL tool in the catalog.
WriteWithSqlTool(t) ==
  /\ Done(t) /\ IsCall(t)
  /\ th[t].req.name = HIVEMIND_WRITE
  /\ th[t].tool_info # NoneT

SuccessText == Envelope(Text("Hive Mind entry created successfully", <<>>, ""), NoneT)

\* C30: with the SQL tool in the catalog, hivemind_write makes exactly one
\* upstream tools/call and answers with the text "Hive Mind entry created
\* successfully", without isError, exactly when that call returned without
\* raising, whatever envelope came back (a JSON-RPC error too).
HivemindWriteOutcome ==
  \A t \in Threads :
    WriteWithSqlTool(t) =>
      /\ Len(th[t].posts) = 1
      /\ th[t].posts[1].method = "tools/call"
      /\ th[t].up # NoneT
      /\ IsRpcResult(t)
      /\ (Body(t).result = SuccessText) <=> ~UpstreamEnvelope(t).raised

\* The same for the calls whose summary is a string.
HivemindWriteOutcomeOfStrings ==
  \A t \in Threads :
    WriteWithSqlTool(t) /\ th[t].req.arguments = GoodArguments =>
      /\ Len(th[t].posts) = 1
      /\ th[t].posts[1].method = "tools/call"
      /\ th[t].up # NoneT
      /\ IsRpcResult(t)
      /\ (Body(t).result = SuccessText) <=> ~UpstreamEnvelope(t).raised

=============================================================================
